---- MODULE Spec2Model ----
(***************************************************************************)
(* Loyalty Drift Dashboard (src/app.js): the drift comparator              *)
(* compareEvents, the JSON input handling of the "Check for Drift" click   *)
(* handler, and the panes the handlers render into.                        *)
(*                                                                         *)
(* JSON texts are flat: a scalar, an object of scalars or an array of      *)
(* scalars, with natural numbers for numbers.  The message of a JSON.parse *)
(* SyntaxError is the engine's; two of them are told apart.  Texts are     *)
(* kept in ASCII: the arrow of an issue message is written "->", the dash  *)
(* of an impact sentence "-", the dot of the badge "|".                    *)
(***************************************************************************)
EXTENDS Integers, Sequences, FiniteSets, TLC

VARIABLES
    scenarioSelect,  \* value of the <select id="scenarioSelect">
    event1,          \* text of <textarea id="event1">, a sequence of JSON tokens
    event2,          \* text of <textarea id="event2">
    statusText,      \* textContent of #drift-status
    summary,         \* the badge inside #summary
    impactLine,      \* #impact-line
    fieldsLine,      \* #fields-line
    targetingLine,   \* #targeting-line
    rawOutput,       \* #raw-output, a sequence of lines
    lastRun,         \* locals of the most recent handler run
    v1,              \* first argument of a direct compareEvents call
    v2,              \* second argument of a direct compareEvents call
    report,          \* compareEvents(v1, v2), once called
    reportRev        \* compareEvents(v2, v1), once called

vars == <<scenarioSelect, event1, event2, statusText, summary, impactLine,
          fieldsLine, targetingLine, rawOutput, lastRun, v1, v2, report, reportRev>>

uiVars == <<scenarioSelect, event1, event2, statusText, summary, impactLine,
            fieldsLine, targetingLine, rawOutput, lastRun>>

cmpVars == <<v1, v2, report, reportRev>>

-----------------------------------------------------------------------------
(* JavaScript values.  A value carries its type tag, so the number 5 and   *)
(* the string "5" are different values.                                    *)

Num(n) == [t |-> "number", n |-> n, s |-> "", o |-> <<>>]
Str(s) == [t |-> "string", n |-> 0, s |-> s, o |-> <<>>]
null == [t |-> "null", n |-> 0, s |-> "", o |-> <<>>]
undefined == [t |-> "undefined", n |-> 0, s |-> "", o |-> <<>>]
\* an object with own properties o (a function from property name to value)
Obj(o) == [t |-> "object", n |-> 0, s |-> "", o |-> o]
\* an array with elements o (a sequence)
Arr(o) == [t |-> "array", n |-> 0, s |-> "", o |-> o]

NoProps == [k \in {} |-> undefined]

DigitChar == <<"0", "1", "2", "3", "4", "5", "6", "7", "8", "9">>

RECURSIVE NatToString(_)
NatToString(n) ==
    IF n < 10 THEN DigitChar[n + 1]
    ELSE NatToString(n \div 10) \o DigitChar[(n % 10) + 1]

\* String(value), as a template literal `${value}` converts it
StringOf(v) ==
    CASE v.t = "number" -> NatToString(v.n)
      [] v.t = "string" -> v.s
      [] v.t = "null" -> "null"
      [] v.t = "undefined" -> "undefined"
      [] v.t = "object" -> "[object Object]"
      [] OTHER -> ""

RECURSIVE Join(_, _)
Join(strs, sep) ==
    IF strs = <<>> THEN ""
    ELSE IF Len(strs) = 1 THEN strs[1]
    ELSE strs[1] \o sep \o Join(Tail(strs), sep)

-----------------------------------------------------------------------------
(* JSON text, as the sequence of its tokens.                               *)

Tok(k) == [k |-> k, n |-> 0, s |-> ""]
StrTok(s) == [k |-> "string", n |-> 0, s |-> s]
NumTok(n) == [k |-> "number", n |-> n, s |-> ""]
WS == Tok("ws")

IsScalarTok(tok) == tok.k \in {"string", "number", "null"}

ScalarOf(tok) ==
    CASE tok.k = "string" -> Str(tok.s)
      [] tok.k = "number" -> Num(tok.n)
      [] OTHER -> null

Parsed(value) == [threw |-> FALSE, value |-> value, message |-> ""]
SyntaxError(message) == [threw |-> TRUE, value |-> undefined, message |-> message]

UnexpectedEnd == "Unexpected end of JSON input"
UnexpectedToken == "Unexpected token in JSON"

\* the members of an object after "{" or ",": string ":" scalar, then "," or "}"
RECURSIVE ParseMembers(_, _, _)
ParseMembers(toks, i, props) ==
    IF i > Len(toks) THEN SyntaxError(UnexpectedEnd)
    ELSE IF toks[i].k # "string" THEN SyntaxError(UnexpectedToken)
    ELSE IF i + 1 > Len(toks) THEN SyntaxError(UnexpectedEnd)
    ELSE IF toks[i + 1].k # ":" THEN SyntaxError(UnexpectedToken)
    ELSE IF i + 2 > Len(toks) THEN SyntaxError(UnexpectedEnd)
    ELSE IF ~IsScalarTok(toks[i + 2]) THEN SyntaxError(UnexpectedToken)
    ELSE LET key == toks[i].s
             \* a repeated key keeps its last value
             next == [k \in DOMAIN props \cup {key} |->
                        IF k = key THEN ScalarOf(toks[i + 2]) ELSE props[k]]
         IN IF i + 3 > Len(toks) THEN SyntaxError(UnexpectedEnd)
            ELSE IF toks[i + 3].k = "," THEN ParseMembers(toks, i + 4, next)
            ELSE IF toks[i + 3].k = "}"
                 THEN IF i + 3 = Len(toks) THEN Parsed(Obj(next))
                      ELSE SyntaxError(UnexpectedToken)
            ELSE SyntaxError(UnexpectedToken)

\* the elements of an array after "[" or ",": scalar, then "," or "]"
RECURSIVE ParseElements(_, _, _)
ParseElements(toks, i, elems) ==
    IF i > Len(toks) THEN SyntaxError(UnexpectedEnd)
    ELSE IF ~IsScalarTok(toks[i]) THEN SyntaxError(UnexpectedToken)
    ELSE IF i + 1 > Len(toks) THEN SyntaxError(UnexpectedEnd)
    ELSE IF toks[i + 1].k = ","
         THEN ParseElements(toks, i + 2, Append(elems, ScalarOf(toks[i])))
    ELSE IF toks[i + 1].k = "]"
         THEN IF i + 1 = Len(toks) THEN Parsed(Arr(Append(elems, ScalarOf(toks[i]))))
              ELSE SyntaxError(UnexpectedToken)
    ELSE SyntaxError(UnexpectedToken)

\* JSON.parse on flat JSON text: a scalar, an object of scalars, an array of scalars
JSONParse(text) ==
    LET toks == SelectSeq(text, LAMBDA tok : tok.k # "ws")
    IN IF toks = <<>> THEN SyntaxError(UnexpectedEnd)
       ELSE IF IsScalarTok(toks[1])
            THEN IF Len(toks) = 1 THEN Parsed(ScalarOf(toks[1]))
                 ELSE SyntaxError(UnexpectedToken)
       ELSE IF toks[1].k = "{"
            THEN IF Len(toks) = 1 THEN SyntaxError(UnexpectedEnd)
                 ELSE IF toks[2].k = "}"
                      THEN IF Len(toks) = 2 THEN Parsed(Obj(NoProps))
                           ELSE SyntaxError(UnexpectedToken)
                 ELSE ParseMembers(toks, 2, NoProps)
       ELSE IF toks[1].k = "["
            THEN IF Len(toks) = 1 THEN SyntaxError(UnexpectedEnd)
                 ELSE IF toks[2].k = "]"
                      THEN IF Len(toks) = 2 THEN Parsed(Arr(<<>>))
                           ELSE SyntaxError(UnexpectedToken)
                 ELSE ParseElements(toks, 2, <<>>)
       ELSE SyntaxError(UnexpectedToken)

safeParse(jsonText) ==
    LET r == JSONParse(jsonText)
    IN IF r.threw THEN [ok |-> FALSE, value |-> undefined, error |-> r.message]
       ELSE [ok |-> TRUE, value |-> r.value, error |-> ""]

-----------------------------------------------------------------------------
(* The predefined scenarios, token by token as written in the source.      *)

\* one source line `  "key": value` of a scenario text
Member(key, valueTok) == <<WS, StrTok(key), Tok(":"), WS, valueTok>>

ScenarioText(partnerId, tier, segment, promoCode, campaignId, score, spend, currency, category) ==
    <<Tok("{")>>
    \o Member("partnerId", StrTok(partnerId)) \o <<Tok(",")>>
    \o Member("tier", StrTok(tier)) \o <<Tok(",")>>
    \o Member("segment", StrTok(segment)) \o <<Tok(",")>>
    \o Member("promoCode", StrTok(promoCode)) \o <<Tok(",")>>
    \o Member("campaignId", StrTok(campaignId)) \o <<Tok(",")>>
    \o Member("score", NumTok(score)) \o <<Tok(",")>>
    \o Member("spend", NumTok(spend)) \o <<Tok(",")>>
    \o Member("currency", StrTok(currency)) \o <<Tok(",")>>
    \o Member("category", StrTok(category))
    \o <<WS, Tok("}")>>

SCENARIOS ==
    [scenario1 |->
        [v1 |-> ScenarioText("PartnerA", "Gold", "HighValue", "SPRING10",
                             "CAMP123", 82, 120, "USD", "Electronics"),
         v2 |-> ScenarioText("partner-a", "Platinum", "HighValue", "SPRING20",
                             "CAMP123", 76, 120, "USD", "Electronics-Devices")],
     scenario2 |->
        [v1 |-> ScenarioText("PartnerB", "Silver", "New", "WELCOME5",
                             "CAMP200", 60, 45, "USD", "Grocery"),
         v2 |-> ScenarioText("PartnerB", "Gold", "New", "WELCOME5",
                             "CAMP200", 68, 45, "USD", "Grocery-Fresh")]]

ScenarioKeys == {"scenario1", "scenario2"}

-----------------------------------------------------------------------------
(* compareEvents                                                           *)

\* the field list with its last entry left out
DRIFT_FIELDS_WithoutCategory ==
    <<"partnerId", "tier", "segment", "promoCode", "campaignId", "score",
      "spend", "currency">>

DRIFT_FIELDS ==
    <<"partnerId", "tier", "segment", "promoCode", "campaignId", "score",
      "spend", "currency", "category">>

\* Object.prototype.hasOwnProperty.call(v, field) for a value other than
\* null/undefined; a primitive or an array has no own property named like
\* a tracked field
hasOwnProperty(v, field) ==
    IF v.t = "object" THEN field \in DOMAIN v.o ELSE FALSE

\* hasOwnProperty.call(null, ...) throws a TypeError
compareEventsThrows(a, b) == a.t \in {"null", "undefined"} \/ b.t \in {"null", "undefined"}

\* a comparison of the printed values, as `${val1}` !== `${val2}` would make
PrintedNotEqual(val1, val2) == StringOf(val1) # StringOf(val2)

\* val1 !== val2 on scalars: different type, or same type and different value
StrictNotEqual(val1, val2) ==
    \/ val1.t # val2.t
    \/ val1.t = "number" /\ val1.n # val2.n
    \/ val1.t = "string" /\ val1.s # val2.s

\* issues.unshift(issue) in place of issues.push(issue)
unshift(issues, issue) == <<issue>> \o issues

\* the "added" branch returning without its push
pushUnlessAdded(issues, issue) ==
    IF issue.type = "added" THEN issues ELSE Append(issues, issue)

push(issues, issue) == Append(issues, issue)

\* an issue object with from and to exchanged
IssueFromToExchanged(field, type, from, to, message) ==
    [field |-> field, type |-> type, from |-> to, to |-> from, message |-> message]

Issue(field, type, from, to, message) ==
    [field |-> field, type |-> type, from |-> from, to |-> to, message |-> message]

\* the callback of DRIFT_FIELDS.forEach, returning the issues list after it
forEachField(a, b, field, issues) ==
    LET has1 == hasOwnProperty(a, field)
        has2 == hasOwnProperty(b, field)
    IN IF has1 /\ ~has2
       THEN push(issues,
                 Issue(field, "removed", a.o[field], undefined,
                       "Field removed in v2: " \o field \o " (was \""
                           \o StringOf(a.o[field]) \o "\")"))
       ELSE IF ~has1 /\ has2
       THEN push(issues,
                 Issue(field, "added", undefined, b.o[field],
                       "Field added in v2: " \o field \o " (now \""
                           \o StringOf(b.o[field]) \o "\")"))
       ELSE IF has1 /\ has2
       THEN LET val1 == a.o[field]
                val2 == b.o[field]
            IN IF StrictNotEqual(val1, val2)
               THEN push(issues,
                         Issue(field, "changed", val1, val2,
                               "Value drift in " \o field \o ": v1=\""
                                   \o StringOf(val1) \o "\" -> v2=\""
                                   \o StringOf(val2) \o "\""))
               ELSE issues
       ELSE issues

RECURSIVE forEach(_, _, _, _)
forEach(fields, a, b, issues) ==
    IF fields = <<>> THEN issues
    ELSE forEach(Tail(fields), a, b, forEachField(a, b, Head(fields), issues))

\* the Medium band starting one issue late
driftLevelOffByOne(count) ==
    IF count > 2 /\ count <= 4 THEN "Medium"
    ELSE IF count > 4 THEN "High"
    ELSE "Low"

driftLevelOf(count) ==
    IF count >= 2 /\ count <= 4 THEN "Medium"
    ELSE IF count > 4 THEN "High"
    ELSE "Low"

\* compareEvents(a, b) for arguments on which it does not throw
compareEvents(a, b) ==
    LET issues == forEach(DRIFT_FIELDS, a, b, <<>>)
    IN [issues |-> issues, driftLevel |-> driftLevelOf(Len(issues))]

-----------------------------------------------------------------------------
(* Direct calls of compareEvents on records drawn from a bounded set.      *)

MaxKeys == 2

\* keys of the small records: tracked fields and one untracked field
RecordKeys == {"partnerId", "tier", "promoCode", "score", "spend", "category", "note"}

\* a number and the string that prints the same
SampleValues == {Num(5), Str("5")}

SmallRecords ==
    UNION {[K -> SampleValues] : K \in {S \in SUBSET RecordKeys : Cardinality(S) <= MaxKeys}}

PresetRecords ==
    {JSONParse(SCENARIOS[k][side]).value.o : k \in ScenarioKeys, side \in {"v1", "v2"}}

InputRecords == SmallRecords \cup PresetRecords

\* report before compareEvents has been called
NotCalled == [issues |-> <<>>, driftLevel |-> ""]

InitCompareVars ==
    /\ v1 = Obj(NoProps)
    /\ v2 = Obj(NoProps)
    /\ report = NotCalled
    /\ reportRev = NotCalled

CallCompare ==
    /\ report = NotCalled
    /\ report' = compareEvents(v1, v2)
    /\ UNCHANGED <<v1, v2, reportRev>>
    /\ UNCHANGED uiVars

CallCompareSwapped ==
    /\ report # NotCalled
    /\ reportRev = NotCalled
    /\ reportRev' = compareEvents(v2, v1)
    /\ UNCHANGED <<v1, v2, report>>
    /\ UNCHANGED uiVars

-----------------------------------------------------------------------------
(* Rendering helpers.  A pane holds the text the code writes into it; text *)
(* joined with "\n" is kept as the sequence of its lines.                  *)

\* what index.html ships in a pane until a handler first writes it
StaticMarkup == "(static markup of index.html)"

Badge(className, text, level, count) ==
    [className |-> className, text |-> text, driftLevel |-> level, issueCount |-> count]

\* renderSummary(result): the badge appended to #summary
renderSummary(result) ==
    IF result = null \/ Len(result.issues) = 0
    THEN Badge("summary-badge summary-badge-ok", "No drift detected for tracked fields.", "", "")
    ELSE Badge("summary-badge summary-badge-fail", "Drift Level: | Issues: ",
               result.driftLevel, NatToString(Len(result.issues)))

FieldsOfType(issues, type) ==
    LET sel == SelectSeq(issues, LAMBDA i : i.type = type)
    IN [k \in DOMAIN sel |-> sel[k].field]

Touched(issues, fields) == \E k \in DOMAIN issues : issues[k].field \in fields

ImpactLineOf(result) ==
    IF Len(result.issues) = 0
    THEN "Drift impact: <strong>Low</strong>. No field-level changes detected in tracked fields."
    ELSE IF result.driftLevel = "Low"
    THEN "Drift impact: <strong>Low</strong>. Small changes, unlikely to fully reshape targeting or promo behavior."
    ELSE IF result.driftLevel = "Medium"
    THEN "Drift impact: <strong>Medium</strong>. Enough changes that some campaigns or scores may behave differently."
    ELSE "Drift impact: <strong>High</strong>. Multiple core fields shifted - expect targeting, eligibility, or scoring to diverge between versions."

FieldsLineOf(result) ==
    IF Len(result.issues) = 0
    THEN "No added, removed, or changed fields in the tracked set."
    ELSE LET added == FieldsOfType(result.issues, "added")
             removed == FieldsOfType(result.issues, "removed")
             changed == FieldsOfType(result.issues, "changed")
             p1 == IF Len(added) > 0
                   THEN <<"Added: <strong>" \o Join(added, ", ") \o "</strong>">> ELSE <<>>
             p2 == IF Len(removed) > 0
                   THEN <<"Removed: <strong>" \o Join(removed, ", ") \o "</strong>">> ELSE <<>>
             p3 == IF Len(changed) > 0
                   THEN <<"Changed: <strong>" \o Join(changed, ", ") \o "</strong>">> ELSE <<>>
         IN Join(p1 \o p2 \o p3, "<br />")

TargetingLineOf(result) ==
    IF Len(result.issues) = 0
    THEN "Targeting, promotions, and scores are likely to stay aligned across versions for tracked fields."
    ELSE LET issues == result.issues
             bullets ==
                 (IF Touched(issues, {"partnerId"}) THEN <<"partner classification">> ELSE <<>>)
                 \o (IF Touched(issues, {"tier"}) THEN <<"tier-based multipliers">> ELSE <<>>)
                 \o (IF Touched(issues, {"category", "segment"})
                     THEN <<"category-level targeting">> ELSE <<>>)
                 \o (IF Touched(issues, {"promoCode", "campaignId"})
                     THEN <<"promo eligibility & campaign mapping">> ELSE <<>>)
                 \o (IF Touched(issues, {"score"})
                     THEN <<"loyalty score & segment assignment">> ELSE <<>>)
         IN IF Len(bullets) > 0
            THEN "Drift is likely to affect: <strong>" \o Join(bullets, ", ") \o "</strong>."
            ELSE "Drift is present but does not touch core targeting or scoring fields in this toy example."

RawOutputOf(result) ==
    IF Len(result.issues) = 0
    THEN <<"No drift detected for tracked fields.",
           "",
           "Drift Level: " \o result.driftLevel,
           "Issue Count: 0",
           "",
           "Impact: Low - no field-level differences across the tracked keys.">>
    ELSE <<"Drift Detected:">>
         \o [k \in DOMAIN result.issues |-> "- " \o result.issues[k].message]
         \o <<"",
              "Drift Level: " \o result.driftLevel,
              "Issue Count: " \o NatToString(Len(result.issues)),
              "">>
         \o (IF result.driftLevel = "High"
             THEN <<"Impact: High - expect targeting, promo eligibility, or scoring to behave differently between these versions.">>
             ELSE IF result.driftLevel = "Medium"
             THEN <<"Impact: Medium - some targeting or promo behavior may shift; review before relying on historical results.">>
             ELSE <<"Impact: Low - small or no meaningful changes in tracked fields.">>)

\* renderDetails(result): the four panes it writes
renderDetails(result) ==
    IF result = null
    THEN [impactLine |-> "Run a drift check to see whether this change is low, medium, or high impact.",
          fieldsLine |-> "Added, removed, and changed fields will appear here by category.",
          targetingLine |-> "See how partner IDs, tiers, and categories might shift behavior downstream.",
          rawOutput |-> <<"Select a scenario and click \"Check for Drift\" to see detailed drift output.">>]
    ELSE [impactLine |-> ImpactLineOf(result),
          fieldsLine |-> FieldsLineOf(result),
          targetingLine |-> TargetingLineOf(result),
          rawOutput |-> RawOutputOf(result)]

-----------------------------------------------------------------------------
(* The handlers.                                                           *)

NotParsed == [ok |-> FALSE, value |-> undefined, error |-> ""]

\* locals of a handler run; outcome is the branch a click left through:
\* "empty", "parseError", "compared", or "threw" (compareEvents threw)
Run(handler, raw1, raw2, parsed1, parsed2, outcome, result) ==
    [handler |-> handler, raw1 |-> raw1, raw2 |-> raw2, parsed1 |-> parsed1,
     parsed2 |-> parsed2, outcome |-> outcome, result |-> result]

Render(badge, details) ==
    /\ summary' = badge
    /\ impactLine' = details.impactLine
    /\ fieldsLine' = details.fieldsLine
    /\ targetingLine' = details.targetingLine
    /\ rawOutput' = details.rawOutput

resetUI == Render(renderSummary(null), renderDetails(null))

\* the "change" listener of the scenario selector, the user having picked key
scenarioSelectChange(key) ==
    /\ key # scenarioSelect
    /\ scenarioSelect' = key
    /\ IF key = "" \/ key \notin ScenarioKeys
       THEN /\ event1' = <<>>
            /\ event2' = <<>>
            /\ statusText' = "Scenario cleared. Select a scenario to begin."
            /\ resetUI
       ELSE /\ event1' = SCENARIOS[key].v1
            /\ event2' = SCENARIOS[key].v2
            /\ statusText' = "Scenario loaded. Click \"Check for Drift\" to calculate."
            /\ resetUI
    /\ lastRun' = Run("change", <<>>, <<>>, NotParsed, NotParsed, "none", NotCalled)
    /\ UNCHANGED cmpVars

\* the second error appended only when the first side parsed (an else-if)
ParseErrorMessageFirstOnly(parsed1, parsed2) ==
    <<"Error parsing JSON:">>
    \o (IF ~parsed1.ok THEN <<"- Event v1: " \o parsed1.error>>
        ELSE IF ~parsed2.ok THEN <<"- Event v2: " \o parsed2.error>> ELSE <<>>)

\* msg.trim() of the parse-error branch, line by line
ParseErrorMessage(parsed1, parsed2) ==
    <<"Error parsing JSON:">>
    \o (IF ~parsed1.ok THEN <<"- Event v1: " \o parsed1.error>> ELSE <<>>)
    \o (IF ~parsed2.ok THEN <<"- Event v2: " \o parsed2.error>> ELSE <<>>)

\* the report the parse-error branch hands to renderSummary
ShowSomething == [issues |-> << <<>>, <<>> >>, driftLevel |-> "Low"]

\* the "click" listener of the Check for Drift button
checkDriftBtnClick ==
    LET raw1 == event1
        raw2 == event2
        parsed1 == safeParse(raw1)
        parsed2 == safeParse(raw2)
    IN /\ IF raw1 = <<>> \/ raw2 = <<>>
          THEN /\ statusText' = "Please select a scenario first; events are empty."
               /\ Render(renderSummary(null), renderDetails(null))
               /\ lastRun' = Run("click", raw1, raw2, NotParsed, NotParsed, "empty", NotCalled)
          ELSE IF ~parsed1.ok \/ ~parsed2.ok
          THEN /\ statusText' = "JSON parsing error."
               /\ rawOutput' = ParseErrorMessage(parsed1, parsed2)
               /\ summary' = renderSummary(ShowSomething)
               /\ UNCHANGED <<impactLine, fieldsLine, targetingLine>>
               /\ lastRun' = Run("click", raw1, raw2, parsed1, parsed2, "parseError", NotCalled)
          ELSE IF compareEventsThrows(parsed1.value, parsed2.value)
          THEN \* the TypeError leaves the listener before anything is written
               /\ UNCHANGED <<statusText, summary, impactLine, fieldsLine,
                              targetingLine, rawOutput>>
               /\ lastRun' = Run("click", raw1, raw2, parsed1, parsed2, "threw", NotCalled)
          ELSE LET result == compareEvents(parsed1.value, parsed2.value)
               IN /\ statusText' = "Drift calculation complete."
                  /\ Render(renderSummary(result), renderDetails(result))
                  /\ lastRun' = Run("click", raw1, raw2, parsed1, parsed2, "compared", result)
       /\ UNCHANGED <<scenarioSelect, event1, event2>>
       /\ UNCHANGED cmpVars

\* texts a user types or pastes into a text area
UserTexts ==
    { <<>>,
      <<Tok("{")>>,
      <<Tok("{"), StrTok("tier"), StrTok("Gold"), Tok("}")>>,
      <<Tok("null")>>,
      <<NumTok(5)>>,
      <<Tok("{"), WS, StrTok("score"), Tok(":"), WS, StrTok("5"), Tok(","),
        StrTok("note"), Tok(":"), Tok("null"), WS, Tok("}")>> }

\* the user replaces the text of #event1
editEvent1(text) ==
    /\ text # event1
    /\ event1' = text
    /\ UNCHANGED <<scenarioSelect, event2, statusText, summary, impactLine,
                   fieldsLine, targetingLine, rawOutput, lastRun>>
    /\ UNCHANGED cmpVars

\* the user replaces the text of #event2
editEvent2(text) ==
    /\ text # event2
    /\ event2' = text
    /\ UNCHANGED <<scenarioSelect, event1, statusText, summary, impactLine,
                   fieldsLine, targetingLine, rawOutput, lastRun>>
    /\ UNCHANGED cmpVars

\* the page after the script has run: preload() has filled in scenario 1
InitPage ==
    /\ scenarioSelect = "scenario1"
    /\ event1 = SCENARIOS["scenario1"].v1
    /\ event2 = SCENARIOS["scenario1"].v2
    /\ statusText = "Scenario 1 loaded. Click \"Check for Drift\" to calculate."
    /\ summary = Badge(StaticMarkup, StaticMarkup, "", "")
    /\ impactLine = StaticMarkup
    /\ fieldsLine = StaticMarkup
    /\ targetingLine = StaticMarkup
    /\ rawOutput = <<StaticMarkup>>
    /\ lastRun = Run("preload", <<>>, <<>>, NotParsed, NotParsed, "none", NotCalled)

Init == InitPage /\ InitCompareVars

Next ==
    \/ \E key \in ScenarioKeys \cup {""} : scenarioSelectChange(key)
    \/ checkDriftBtnClick
    \/ \E text \in UserTexts : editEvent1(text)
    \/ \E text \in UserTexts : editEvent2(text)

Spec == Init /\ [][Next]_vars

\* compareEvents called directly on every pair of input records
InitCompare ==
    /\ InitPage
    /\ v1 \in {Obj(r) : r \in InputRecords}
    /\ v2 \in {Obj(r) : r \in InputRecords}
    /\ report = NotCalled
    /\ reportRev = NotCalled

NextCompare == CallCompare \/ CallCompareSwapped

SpecCompare == InitCompare /\ [][NextCompare]_vars

-----------------------------------------------------------------------------
(* Properties of compareEvents, checked under SpecCompare.                 *)

TrackedFields == {DRIFT_FIELDS[i] : i \in DOMAIN DRIFT_FIELDS}

Called == report # NotCalled

CalledBoth == report # NotCalled /\ reportRev # NotCalled

\* v1 and v2 disagree on field f, on presence or on (typed) value
Disagree(f) ==
    \/ (f \in DOMAIN v1.o) # (f \in DOMAIN v2.o)
    \/ f \in DOMAIN v1.o /\ f \in DOMAIN v2.o /\ v1.o[f] # v2.o[f]

IssuesOn(issues, f) == {k \in DOMAIN issues : issues[k].field = f}

\* C1: compareEvents(v1, v2) holds exactly one issue for each tracked field on
\* which v1 and v2 disagree on presence or value, and none for any other field
\* (absent from both, equal in both, or untracked), so issues.length is the
\* number of disagreeing tracked fields.
C1_OneIssuePerDisagreeingField ==
    Called =>
        /\ \A f \in TrackedFields :
               Cardinality(IssuesOn(report.issues, f)) = (IF Disagree(f) THEN 1 ELSE 0)
        /\ \A k \in DOMAIN report.issues : report.issues[k].field \in TrackedFields
        /\ Len(report.issues) = Cardinality({f \in TrackedFields : Disagree(f)})

\* a call where a tracked field is absent from both, one is equal in both, the
\* untracked field differs, and a tracked field disagrees
C1_Witness ==
    /\ Called
    /\ \E f \in TrackedFields : f \notin DOMAIN v1.o /\ f \notin DOMAIN v2.o
    /\ \E f \in TrackedFields : f \in DOMAIN v1.o /\ f \in DOMAIN v2.o /\ v1.o[f] = v2.o[f]
    /\ "note" \in DOMAIN v1.o /\ "note" \notin DOMAIN v2.o
    /\ Len(report.issues) = 1

\* C2: an issue on a field present only in v1 is 'removed' with from = v1[f] and
\* to = undefined; on a field present only in v2 it is 'added' with
\* from = undefined and to = v2[f]; on a field present in both it is 'changed'
\* with from = v1[f], to = v2[f], the two differing in type or value; the
\* number 5 against the string "5" is reported as changed; no other type occurs.
C2_IssueTypeFromTo ==
    Called =>
        /\ \A k \in DOMAIN report.issues :
               LET i == report.issues[k]
                   f == i.field
                   in1 == f \in DOMAIN v1.o
                   in2 == f \in DOMAIN v2.o
               IN /\ i.type \in {"removed", "added", "changed"}
                  /\ (in1 /\ ~in2) =>
                         i.type = "removed" /\ i.from = v1.o[f] /\ i.to = undefined
                  /\ (~in1 /\ in2) =>
                         i.type = "added" /\ i.from = undefined /\ i.to = v2.o[f]
                  /\ (in1 /\ in2) =>
                         /\ i.type = "changed" /\ i.from = v1.o[f] /\ i.to = v2.o[f]
                         /\ i.from # i.to
                  /\ in1 \/ in2
        /\ \A f \in TrackedFields :
               (f \in DOMAIN v1.o /\ f \in DOMAIN v2.o
                    /\ {v1.o[f], v2.o[f]} = {Num(5), Str("5")})
               => \E k \in DOMAIN report.issues :
                      report.issues[k].field = f /\ report.issues[k].type = "changed"

\* a report with a removed field, an added field and 5 changed to "5"
C2_Witness ==
    /\ Called
    /\ \E k \in DOMAIN report.issues : report.issues[k].type = "removed"
    /\ \E k \in DOMAIN report.issues : report.issues[k].type = "added"
    /\ \E k \in DOMAIN report.issues :
           /\ report.issues[k].type = "changed"
           /\ report.issues[k].from = Num(5)
           /\ report.issues[k].to = Str("5")

\* C3: driftLevel is decided by n = issues.length alone: Low for n < 2, Medium
\* for 2 <= n <= 4, High for n > 4.
C3_DriftLevelByCount ==
    \A r \in {report, reportRev} :
        r # NotCalled =>
            LET n == Len(r.issues)
            IN /\ r.driftLevel \in {"Low", "Medium", "High"}
               /\ (n < 2) => r.driftLevel = "Low"
               /\ (2 <= n /\ n <= 4) => r.driftLevel = "Medium"
               /\ (n > 4) => r.driftLevel = "High"

\* a report at the lower edge of the Medium band
C3_Witness == Called /\ Len(report.issues) = 2 /\ report.driftLevel = "Medium"

FieldIndex(f) == CHOOSE i \in DOMAIN DRIFT_FIELDS : DRIFT_FIELDS[i] = f

\* C4: the issues are in DRIFT_FIELDS order: their field names are tracked
\* fields at strictly increasing positions of DRIFT_FIELDS.
C4_IssuesInFieldOrder ==
    Called =>
        /\ \A k \in DOMAIN report.issues : report.issues[k].field \in TrackedFields
        /\ \A j, k \in DOMAIN report.issues :
               j < k => FieldIndex(report.issues[j].field) < FieldIndex(report.issues[k].field)

\* a report of at least three issues of more than one type
C4_Witness ==
    /\ Called
    /\ Len(report.issues) >= 3
    /\ \E j, k \in DOMAIN report.issues : report.issues[j].type # report.issues[k].type

SwappedType(type) ==
    CASE type = "added" -> "removed"
      [] type = "removed" -> "added"
      [] OTHER -> type

\* C5: compareEvents(A, B) and compareEvents(B, A) report the same fields, the
\* same count and the same driftLevel; 'added' and 'removed' swap, 'changed'
\* stays, and from/to are exchanged.
C5_SwappedArguments ==
    CalledBoth =>
        /\ Len(report.issues) = Len(reportRev.issues)
        /\ report.driftLevel = reportRev.driftLevel
        /\ {report.issues[k].field : k \in DOMAIN report.issues}
               = {reportRev.issues[k].field : k \in DOMAIN reportRev.issues}
        /\ \A k \in DOMAIN report.issues :
               \E j \in DOMAIN reportRev.issues :
                   /\ reportRev.issues[j].field = report.issues[k].field
                   /\ reportRev.issues[j].type = SwappedType(report.issues[k].type)
                   /\ reportRev.issues[j].from = report.issues[k].to
                   /\ reportRev.issues[j].to = report.issues[k].from

\* both calls made on a pair with an added, a removed and a changed field
C5_Witness ==
    /\ CalledBoth
    /\ \E k \in DOMAIN report.issues : report.issues[k].type = "removed"
    /\ \E k \in DOMAIN report.issues : report.issues[k].type = "added"
    /\ \E k \in DOMAIN report.issues : report.issues[k].type = "changed"

-----------------------------------------------------------------------------
(* Properties of the handlers, checked under Spec.                         *)

Clicked == lastRun.handler = "click"

\* the most recent click found both text areas non-empty
ClickedNonEmpty == Clicked /\ lastRun.raw1 # <<>> /\ lastRun.raw2 # <<>>

Fails(text) == JSONParse(text).threw

Lines(pane) == {pane[k] : k \in DOMAIN pane}

\* C6: a click with both texts non-empty and a parse failure on either side
\* does not call compareEvents, sets the status to 'JSON parsing error.' and
\* writes one error line for every side that failed, both when both failed.
C6_EveryFailedSideReported ==
    (ClickedNonEmpty /\ (Fails(lastRun.raw1) \/ Fails(lastRun.raw2))) =>
        /\ lastRun.outcome = "parseError"
        /\ lastRun.result = NotCalled
        /\ statusText = "JSON parsing error."
        /\ rawOutput[1] = "Error parsing JSON:"
        /\ Fails(lastRun.raw1) =>
               ("- Event v1: " \o JSONParse(lastRun.raw1).message) \in Lines(rawOutput)
        /\ Fails(lastRun.raw2) =>
               ("- Event v2: " \o JSONParse(lastRun.raw2).message) \in Lines(rawOutput)
        /\ Len(rawOutput) = 1 + (IF Fails(lastRun.raw1) THEN 1 ELSE 0)
                              + (IF Fails(lastRun.raw2) THEN 1 ELSE 0)

\* a click on two texts that both fail to parse, with different errors
C6_Witness ==
    /\ ClickedNonEmpty
    /\ Fails(lastRun.raw1)
    /\ Fails(lastRun.raw2)
    /\ JSONParse(lastRun.raw1).message # JSONParse(lastRun.raw2).message
    /\ Len(rawOutput) = 3

\* C7: after a click that hit a parse error the summary shows no drift level
\* and no issue count.
C7_NoFabricatedReport ==
    (Clicked /\ lastRun.outcome = "parseError") =>
        summary.driftLevel = "" /\ summary.issueCount = ""

\* C8: a click on two non-empty texts ends either with compareEvents run on two
\* records and status 'Drift calculation complete.', or with a reported parse
\* error and status 'JSON parsing error.'; nothing is thrown past the handler
\* and compareEvents never receives a value that is not a record.
C8_TwoOutcomesRecordsOnly ==
    ClickedNonEmpty =>
        \/ /\ lastRun.outcome = "compared"
           /\ lastRun.parsed1.value.t = "object"
           /\ lastRun.parsed2.value.t = "object"
           /\ statusText = "Drift calculation complete."
        \/ /\ lastRun.outcome = "parseError"
           /\ statusText = "JSON parsing error."

IssueFields(result) == [k \in DOMAIN result.issues |-> result.issues[k].field]

AllChanged(result) == \A k \in DOMAIN result.issues : result.issues[k].type = "changed"

ComparedPreset(key) ==
    /\ Clicked
    /\ lastRun.outcome = "compared"
    /\ lastRun.raw1 = SCENARIOS[key].v1
    /\ lastRun.raw2 = SCENARIOS[key].v2

\* C9: scenario1 compares to 5 'changed' issues on partnerId, tier, promoCode,
\* score, category in that order with driftLevel High; scenario2 to 3 'changed'
\* issues on tier, score, category with driftLevel Medium.
C9_PresetResults ==
    /\ ComparedPreset("scenario1") =>
           /\ IssueFields(lastRun.result)
                  = <<"partnerId", "tier", "promoCode", "score", "category">>
           /\ AllChanged(lastRun.result)
           /\ lastRun.result.driftLevel = "High"
    /\ ComparedPreset("scenario2") =>
           /\ IssueFields(lastRun.result) = <<"tier", "score", "category">>
           /\ AllChanged(lastRun.result)
           /\ lastRun.result.driftLevel = "Medium"

\* scenario 2 selected, loaded and compared
C9_Witness ==
    /\ ComparedPreset("scenario2")
    /\ scenarioSelect = "scenario2"
    /\ statusText = "Drift calculation complete."

DetailsAre(details) ==
    /\ impactLine = details.impactLine
    /\ fieldsLine = details.fieldsLine
    /\ targetingLine = details.targetingLine

\* the detail lines show the static markup or the placeholder of resetUI
DetailsReset ==
    \/ impactLine = StaticMarkup /\ fieldsLine = StaticMarkup /\ targetingLine = StaticMarkup
    \/ DetailsAre(renderDetails(null))

SummaryReset == summary \in {Badge(StaticMarkup, StaticMarkup, "", ""), renderSummary(null)}

\* C10: the panes agree: after a click that compared, summary and detail lines
\* all describe that comparison; after a click that reported a parse error no
\* detail line of an earlier comparison is left on screen; otherwise (no click
\* yet, a scenario change, a click on empty input) all show the reset state.
C10_PanesAgree ==
    /\ lastRun.outcome = "compared" =>
           summary = renderSummary(lastRun.result) /\ DetailsAre(renderDetails(lastRun.result))
    /\ lastRun.outcome = "parseError" => DetailsReset
    /\ lastRun.outcome \in {"none", "empty"} => SummaryReset /\ DetailsReset

====
